---- MODULE Spec2Model ----
(***************************************************************************)
(* Model of AtomicBitSet (src/src/atomic_bit_set.rs): a lock-free sparse   *)
(* bit set made of BUCKET_COUNT lazily allocated buckets, bucket i holding *)
(* 2^i words of PTR_WIDTH bits.                                            *)
(*                                                                         *)
(* A word (AtomicUsize) is modelled as the set of its set bit positions,   *)
(* a subset of 0..PTR_WIDTH-1: `1 << sub_index` is {sub_index}, fetch_or   *)
(* is union, fetch_and(!mask) is set difference, `w & mask != 0` is        *)
(* membership.  A pointer is 0 (null) or the identity of a heap block.     *)
(* add, remove and contains are executed by threads one atomic memory      *)
(* access at a time; clear and drop take `&mut self` and therefore run     *)
(* only when no other call is in progress.                                 *)
(***************************************************************************)
EXTENDS Integers, Sequences, FiniteSets, TLC

PTR_WIDTH == 64
BUCKET_COUNT == PTR_WIDTH

NULL == 0

\* Threads that share the set (callers of add / remove / contains).
Threads == {1, 2}

\* Values used by the single caller: 0 and 1 share word 0 of bucket 0, 64 and
\* 128 are words 0 and 1 of bucket 1, 192 is word 0 of bucket 2.
Vals == {0, 1, 64, 128, 192}

\* Values used by the concurrent callers: 0 is in bucket 0, 64 and 65 share
\* word 0 of bucket 1.
ConcVals == {0, 64, 65}

\* Length of the contiguous range inserted by the insert_100k test driver.
RangeN == 520

\* The address translation is applied to every bit index up to MaxVal and to
\* the bit indices around every bucket boundary up to usize::MAX.
MaxVal == 200

\* Keys inserted by each thread of the disjoint-key driver.
Keys == <<  <<0, 64>>, <<1, 65, 128>>  >>

VARIABLES
    buckets,   \* the slot array: [0..BUCKET_COUNT-1 -> pointer]
    mem,       \* the heap: live block |-> [word offset |-> set of set bits]
    pc,        \* per thread: position inside the current call
    arg,       \* per thread: `val` of the current call
    ptr,       \* per thread: local `storage_bucket`
    spec_alloc,\* per thread: local `alloc` (speculative block), NULL if none
    ret,       \* per thread: value returned by the last completed call
    phase,     \* "alive" | "cleared" (clear() just returned) | "dropped" | "aborted"
               \* | "ub" (a block was freed twice or with another size, or a
               \* freed word was accessed: the behaviour is undefined from there)
    hist,      \* history: value |-> last event that concerned it
    step,      \* per thread: number of calls issued by a test driver
    pubs,      \* history: the slots that have been published since new()
    xlat       \* address translation on its own: the input and index()'s result

vars == <<buckets, mem, pc, arg, ptr, spec_alloc, ret, phase, hist, step,
          pubs, xlat>>

----------------------------------------------------------------------------
\* Pure helpers

RECURSIVE BitLen(_)
\* number of significant bits of x (0 for x = 0)
BitLen(x) == IF x = 0 THEN 0 ELSE 1 + BitLen(x \div 2)

\* usize::leading_zeros
leading_zeros(x) == PTR_WIDTH - BitLen(x)

\* fn index(val) -> (bucket, bucket_size, index)
index(val) ==
    LET bucket == PTR_WIDTH - leading_zeros(val + 1) - 1
        bucket_size == 2 ^ bucket
    IN  [bucket |-> bucket, bucket_size |-> bucket_size,
         index |-> val - (bucket_size - 1)]

BucketOf(v) == index(v \div PTR_WIDTH).bucket
SizeOf(v) == index(v \div PTR_WIDTH).bucket_size
OffsetOf(v) == index(v \div PTR_WIDTH).index
\* variant: the bit position taken from the quotient instead of the remainder
sub_index_quotient(v) == v \div PTR_WIDTH
\* line 30 (and 52, 63): sub_index = val % PTR_WIDTH
sub_index(v) == v % PTR_WIDTH

\* ---- usize arithmetic at its full width ----
\* A usize is the set of the positions of its 1 bits, as the words of a bucket
\* are. ovf records that an operation left the range of usize (a panic in a
\* build with overflow checks, the wrapped value otherwise).
Bits == 0..(PTR_WIDTH - 1)

FromInt(n) == {p \in 0..30 : (n \div (2 ^ p)) % 2 = 1}

RECURSIVE ToInt(_)
\* defined for the values below 2^31
ToInt(x) == IF x = {} THEN 0
            ELSE LET p == CHOOSE q \in x : TRUE IN (2 ^ p) + ToInt(x \ {p})

Bit(x, p) == IF p \in x THEN 1 ELSE 0

\* the carry into position p of x + y
Carry(x, y, p) ==
    \E q \in 0..(p - 1) :
        /\ q \in x /\ q \in y
        /\ \A r \in (q + 1)..(p - 1) : r \in x \/ r \in y
\* x + y
Add(x, y) ==
    [val |-> {p \in Bits :
                (Bit(x, p) + Bit(y, p) + (IF Carry(x, y, p) THEN 1 ELSE 0)) % 2 = 1},
     ovf |-> Carry(x, y, PTR_WIDTH)]

\* the borrow from position p of x - y
Borrow(x, y, p) ==
    \E q \in 0..(p - 1) :
        /\ q \notin x /\ q \in y
        /\ \A r \in (q + 1)..(p - 1) : ~(r \in x /\ r \notin y)
\* x - y
Sub(x, y) ==
    [val |-> {p \in Bits :
                (Bit(x, p) + Bit(y, p) + (IF Borrow(x, y, p) THEN 1 ELSE 0)) % 2 = 1},
     ovf |-> Borrow(x, y, PTR_WIDTH)]

\* 1 << n: the shift amount is taken modulo PTR_WIDTH when it is too large
Shl1(n) == [val |-> {ToInt(n \cap FromInt(PTR_WIDTH - 1))},
            ovf |-> n \ FromInt(PTR_WIDTH - 1) # {}]

\* x / PTR_WIDTH and x % PTR_WIDTH (PTR_WIDTH = 2^6)
DivWidth(x) == {p - 6 : p \in {q \in x : q >= 6}}
ModWidth(x) == x \cap FromInt(PTR_WIDTH - 1)

\* usize::leading_zeros
leading_zeros_bits(x) ==
    IF x = {} THEN PTR_WIDTH
    ELSE PTR_WIDTH - 1 - (CHOOSE p \in x : \A q \in x : q <= p)

\* variant: the - 1 of the bucket number is forgotten
index_bits_next_bucket(val) ==
    LET inc == Add(val, {0})
        b1 == Sub(FromInt(PTR_WIDTH), FromInt(leading_zeros_bits(inc.val)))
        size == Shl1(b1.val)
        dec == Sub(size.val, {0})
        idx == Sub(val, dec.val)
    IN  [bucket |-> b1.val, bucket_size |-> size.val, index |-> idx.val,
         ovf |-> inc.ovf \/ b1.ovf \/ size.ovf \/ dec.ovf \/ idx.ovf]

\* variant: the offset is val - bucket_size
index_bits_offset_low(val) ==
    LET inc == Add(val, {0})
        b1 == Sub(FromInt(PTR_WIDTH), FromInt(leading_zeros_bits(inc.val)))
        b2 == Sub(b1.val, {0})
        size == Shl1(b2.val)
        idx == Sub(val, size.val)
    IN  [bucket |-> b2.val, bucket_size |-> size.val, index |-> idx.val,
         ovf |-> inc.ovf \/ b1.ovf \/ b2.ovf \/ size.ovf \/ idx.ovf]

\* fn index(val) -> (bucket, bucket_size, index), every operation on usize
index_bits(val) ==
    LET inc == Add(val, {0})
        b1 == Sub(FromInt(PTR_WIDTH), FromInt(leading_zeros_bits(inc.val)))
        b2 == Sub(b1.val, {0})
        size == Shl1(b2.val)
        dec == Sub(size.val, {0})
        idx == Sub(val, dec.val)
    IN  [bucket |-> b2.val, bucket_size |-> size.val, index |-> idx.val,
         ovf |-> inc.ovf \/ b1.ovf \/ b2.ovf \/ size.ovf \/ dec.ovf
                 \/ idx.ovf]

\* The bit indices the translation is applied to: the small ones, and for
\* every bit position j the values 2^j, 2^j + 63, 2^(j+1) - 64, 2^(j+1) - 1,
\* 2^(j+1) - 128 and 2^(j+1) - 65: the first and the last bit of the first
\* word of a bucket and of the last two words of the bucket before it.
IndexVals ==
    {FromInt(v) : v \in 0..MaxVal}
    \cup UNION {{ {j}, {j} \cup (0..5), 6..j, 0..j, 7..j, (7..j) \cup (0..5) } :
                  j \in 6..(PTR_WIDTH - 1)}

\* alloc_zeroed(Layout::array::<AtomicUsize>(n)): a block of n zero words
\* at an address that is not the address of a live block.
NewPtr(mm) == CHOOSE p \in 1..(Cardinality(DOMAIN mm) + 1) :
                  /\ p \notin DOMAIN mm
                  /\ \A q \in 1..(p - 1) : q \in DOMAIN mm
ZeroBlock(n) == [w \in 0..(n - 1) |-> {}]
AllocZeroed(mm, n) ==
    [q \in DOMAIN mm \cup {NewPtr(mm)} |->
        IF q = NewPtr(mm) THEN ZeroBlock(n) ELSE mm[q]]

\* dealloc(p, layout): the block is no longer live.
Dealloc(mm, p) == [q \in DOMAIN mm \ {p} |-> mm[q]]

\* dealloc(p, Layout::array(n)) is defined only for a live block p that was
\* allocated with the same layout, i.e. with n words.
ValidFree(mm, p, n) == p \in DOMAIN mm /\ DOMAIN mm[p] = 0..(n - 1)

\* &*p.add(offset) is defined only inside a live block.
ValidWord(mm, p, offset) == p \in DOMAIN mm /\ offset \in DOMAIN mm[p]

\* The bit of value v as contains() computes it from the current state.
ContainsIn(bk, mm, v) ==
    IF bk[BucketOf(v)] = NULL THEN FALSE
    ELSE sub_index(v) \in mm[bk[BucketOf(v)]][OffsetOf(v)]
Contains(v) == ContainsIn(buckets, mem, v)

Hist(v) == IF v \in DOMAIN hist THEN hist[v] ELSE "fresh"
Record(h, v, e) == [x \in DOMAIN h \cup {v} |-> IF x = v THEN e ELSE h[x]]

\* Thread t is between two calls: it has not called yet, or its last call
\* (add, remove or contains) has returned.
Idle(t) == pc[t] \in {"idle", "ret_add", "ret_rem", "ret_con"}
Quiescent == \A t \in Threads : Idle(t)

----------------------------------------------------------------------------
\* AtomicBitSet::new

\* No address translation under way.
NoXlat == [val |-> {}, done |-> FALSE, bucket |-> {}, bucket_size |-> {},
           index |-> {}, sub_index |-> {}, ovf |-> FALSE]

InitSet ==
    /\ buckets = [i \in 0..(BUCKET_COUNT - 1) |-> NULL]
    /\ mem = <<>>
    /\ pc = [t \in Threads |-> "idle"]
    /\ arg = [t \in Threads |-> 0]
    /\ ptr = [t \in Threads |-> NULL]
    /\ spec_alloc = [t \in Threads |-> NULL]
    /\ ret = [t \in Threads |-> FALSE]
    /\ phase = "alive"
    /\ hist = <<>>
    /\ step = [t \in Threads |-> 0]
    /\ pubs = {}

Init == InitSet /\ xlat = NoXlat

Running == phase \in {"alive", "cleared"}

\* A caller enters add / remove / contains with argument v.
Call(t, entry, v) ==
    /\ Running
    /\ Idle(t)
    /\ pc' = [pc EXCEPT ![t] = entry]
    /\ arg' = [arg EXCEPT ![t] = v]
    /\ ret' = [ret EXCEPT ![t] = FALSE]
    /\ phase' = "alive"
    /\ UNCHANGED <<buckets, mem, ptr, spec_alloc, hist, pubs, xlat>>

\* The call of thread t returns r; the locals of the call die.
Return(t, done, r) ==
    /\ pc' = [pc EXCEPT ![t] = done]
    /\ ret' = [ret EXCEPT ![t] = r]
    /\ ptr' = [ptr EXCEPT ![t] = NULL]
    /\ arg' = [arg EXCEPT ![t] = 0]


----------------------------------------------------------------------------
\* AtomicBitSet::add, one atomic access per action

\* line 31: storage_bucket = self.buckets[bucket].load(Acquire)
AddLoad(t) ==
    /\ Running
    /\ pc[t] = "add_load"
    /\ ptr' = [ptr EXCEPT ![t] = buckets[BucketOf(arg[t])]]
    /\ pc' = [pc EXCEPT ![t] =
                IF buckets[BucketOf(arg[t])] = NULL THEN "add_alloc" ELSE "add_or"]
    /\ UNCHANGED <<buckets, mem, arg, spec_alloc, ret, phase, hist, step, pubs, xlat>>

\* line 33: alloc = alloc_zeroed(Layout::array(bucket_size)), not null
AddAlloc(t) ==
    /\ Running
    /\ pc[t] = "add_alloc"
    /\ mem' = AllocZeroed(mem, SizeOf(arg[t]))
    /\ spec_alloc' = [spec_alloc EXCEPT ![t] = NewPtr(mem)]
    /\ pc' = [pc EXCEPT ![t] = "add_cas"]
    /\ UNCHANGED <<buckets, arg, ptr, ret, phase, hist, step, pubs, xlat>>

\* variant: a failed allocation makes add return false instead of aborting
AddAllocFailSoft(t) ==
    /\ Running
    /\ pc[t] = "add_alloc"
    /\ phase' = "aborted"
    /\ Return(t, "ret_add", FALSE)
    /\ UNCHANGED <<buckets, mem, spec_alloc, hist, step, pubs, xlat>>

\* lines 33-36: alloc_zeroed returned null, abort() ends the process
AddAllocFail(t) ==
    /\ Running
    /\ pc[t] = "add_alloc"
    /\ phase' = "aborted"
    /\ UNCHANGED <<buckets, mem, pc, arg, ptr, spec_alloc, ret, hist, step, pubs, xlat>>

\* variant: an unconditional store of the new block in place of the
\* compare_exchange
AddCasStore(t) ==
    /\ Running
    /\ pc[t] = "add_cas"
    /\ buckets' = [buckets EXCEPT ![BucketOf(arg[t])] = spec_alloc[t]]
    /\ ptr' = [ptr EXCEPT ![t] = spec_alloc[t]]
    /\ spec_alloc' = [spec_alloc EXCEPT ![t] = NULL]
    /\ pc' = [pc EXCEPT ![t] = "add_or"]
    /\ pubs' = IF buckets[BucketOf(arg[t])] = NULL
               THEN pubs \cup {BucketOf(arg[t])} ELSE pubs
    /\ UNCHANGED <<mem, arg, ret, phase, hist, step, xlat>>

\* variant: the loser of the compare_exchange keeps working on its own
\* block instead of the published one
AddCasKeepOwn(t) ==
    /\ Running
    /\ pc[t] = "add_cas"
    /\ buckets' = IF buckets[BucketOf(arg[t])] = NULL
                  THEN [buckets EXCEPT ![BucketOf(arg[t])] = spec_alloc[t]]
                  ELSE buckets
    /\ ptr' = [ptr EXCEPT ![t] = spec_alloc[t]]
    /\ spec_alloc' = [spec_alloc EXCEPT ![t] = NULL]
    /\ pc' = [pc EXCEPT ![t] = "add_or"]
    /\ pubs' = IF buckets[BucketOf(arg[t])] = NULL
               THEN pubs \cup {BucketOf(arg[t])} ELSE pubs
    /\ UNCHANGED <<mem, arg, ret, phase, hist, step, xlat>>

\* variant: the loser of the compare_exchange does not free its block
AddCasLeak(t) ==
    /\ Running
    /\ pc[t] = "add_cas"
    /\ IF buckets[BucketOf(arg[t])] = NULL
       THEN /\ buckets' = [buckets EXCEPT ![BucketOf(arg[t])] = spec_alloc[t]]
            /\ ptr' = [ptr EXCEPT ![t] = spec_alloc[t]]
       ELSE /\ buckets' = buckets
            /\ ptr' = [ptr EXCEPT ![t] = buckets[BucketOf(arg[t])]]
    /\ spec_alloc' = [spec_alloc EXCEPT ![t] = NULL]
    /\ pc' = [pc EXCEPT ![t] = "add_or"]
    /\ pubs' = IF buckets[BucketOf(arg[t])] = NULL
               THEN pubs \cup {BucketOf(arg[t])} ELSE pubs
    /\ UNCHANGED <<mem, arg, ret, phase, hist, step, xlat>>

\* variant: a retry loop, the loser frees its block and loads the slot again
AddCasRetry(t) ==
    /\ Running
    /\ pc[t] = "add_cas"
    /\ IF buckets[BucketOf(arg[t])] = NULL
       THEN /\ buckets' = [buckets EXCEPT ![BucketOf(arg[t])] = spec_alloc[t]]
            /\ ptr' = [ptr EXCEPT ![t] = spec_alloc[t]]
            /\ mem' = mem
            /\ pc' = [pc EXCEPT ![t] = "add_or"]
       ELSE /\ buckets' = buckets
            /\ ptr' = ptr
            /\ mem' = Dealloc(mem, spec_alloc[t])
            /\ pc' = [pc EXCEPT ![t] = "add_load"]
    /\ spec_alloc' = [spec_alloc EXCEPT ![t] = NULL]
    /\ pubs' = IF buckets[BucketOf(arg[t])] = NULL
               THEN pubs \cup {BucketOf(arg[t])} ELSE pubs
    /\ UNCHANGED <<arg, ret, phase, hist, step, xlat>>

\* lines 37-43: compare_exchange(null, alloc); the loser frees its block
\* and continues with the pointer it found
AddCas(t) ==
    /\ Running
    /\ pc[t] = "add_cas"
    /\ IF buckets[BucketOf(arg[t])] = NULL
       THEN /\ buckets' = [buckets EXCEPT ![BucketOf(arg[t])] = spec_alloc[t]]
            /\ ptr' = [ptr EXCEPT ![t] = spec_alloc[t]]
            /\ mem' = mem
       ELSE /\ buckets' = buckets
            /\ ptr' = [ptr EXCEPT ![t] = buckets[BucketOf(arg[t])]]
            /\ mem' = Dealloc(mem, spec_alloc[t])
    /\ phase' = IF buckets[BucketOf(arg[t])] # NULL
                   /\ ~ValidFree(mem, spec_alloc[t], SizeOf(arg[t]))
                THEN "ub" ELSE phase
    /\ spec_alloc' = [spec_alloc EXCEPT ![t] = NULL]
    /\ pc' = [pc EXCEPT ![t] = "add_or"]
    /\ pubs' = IF buckets[BucketOf(arg[t])] = NULL
               THEN pubs \cup {BucketOf(arg[t])} ELSE pubs
    /\ UNCHANGED <<arg, ret, hist, step, xlat>>

\* variant: fetch_xor in place of fetch_or
FetchOrToggle(word, v) ==
    IF sub_index(v) \in word THEN word \ {sub_index(v)} ELSE word \cup {sub_index(v)}
\* variant: a plain store of the mask in place of fetch_or
FetchOrStore(word, v) == {sub_index(v)}
\* the word after fetch_or(1 << sub_index)
FetchOr(word, v) == word \cup {sub_index(v)}

\* variant: the bit is tested in the word after the fetch_or, not in the
\* previous word that fetch_or returns
AddOrReturnsNew(t) ==
    /\ Running
    /\ pc[t] = "add_or"
    /\ ptr[t] \in DOMAIN mem
    /\ mem' = [mem EXCEPT ![ptr[t]][OffsetOf(arg[t])] = FetchOr(@, arg[t])]
    /\ Return(t, "ret_add",
              sub_index(arg[t]) \in FetchOr(mem[ptr[t]][OffsetOf(arg[t])], arg[t]))
    /\ hist' = Record(hist, arg[t], "added")
    /\ UNCHANGED <<buckets, spec_alloc, phase, step, pubs, xlat>>

\* line 47: (*storage_bucket.add(index)).fetch_or(1 << sub_index) & (1 << sub_index) != 0
AddOr(t) ==
    /\ Running
    /\ pc[t] = "add_or"
    /\ IF ValidWord(mem, ptr[t], OffsetOf(arg[t]))
       THEN /\ mem' = [mem EXCEPT ![ptr[t]][OffsetOf(arg[t])] = FetchOr(@, arg[t])]
            /\ Return(t, "ret_add",
                      sub_index(arg[t]) \in mem[ptr[t]][OffsetOf(arg[t])])
            /\ hist' = Record(hist, arg[t], "added")
            /\ phase' = phase
       ELSE /\ phase' = "ub"
            /\ UNCHANGED <<mem, pc, ret, ptr, arg, hist>>
    /\ UNCHANGED <<buckets, spec_alloc, step, pubs, xlat>>

----------------------------------------------------------------------------
\* AtomicBitSet::remove

\* variant: remove acquires the bucket the way add does, publishing a new
\* block when the slot is null
RemLoadAlloc(t) ==
    /\ Running
    /\ pc[t] = "rem_load"
    /\ IF buckets[BucketOf(arg[t])] = NULL
       THEN /\ mem' = AllocZeroed(mem, SizeOf(arg[t]))
            /\ buckets' = [buckets EXCEPT ![BucketOf(arg[t])] = NewPtr(mem)]
            /\ ptr' = [ptr EXCEPT ![t] = NewPtr(mem)]
       ELSE /\ ptr' = [ptr EXCEPT ![t] = buckets[BucketOf(arg[t])]]
            /\ UNCHANGED <<buckets, mem>>
    /\ pc' = [pc EXCEPT ![t] = "rem_and"]
    /\ pubs' = pubs \cup {BucketOf(arg[t])}
    /\ UNCHANGED <<arg, spec_alloc, ret, phase, hist, step, xlat>>

\* lines 53-56: load the slot; a null slot returns false
RemLoad(t) ==
    /\ Running
    /\ pc[t] = "rem_load"
    /\ IF buckets[BucketOf(arg[t])] = NULL
       THEN /\ Return(t, "ret_rem", FALSE)
            /\ hist' = IF Hist(arg[t]) = "fresh" THEN hist
                       ELSE Record(hist, arg[t], "removed")
       ELSE /\ ptr' = [ptr EXCEPT ![t] = buckets[BucketOf(arg[t])]]
            /\ pc' = [pc EXCEPT ![t] = "rem_and"]
            /\ UNCHANGED <<ret, hist, arg>>
    /\ UNCHANGED <<buckets, mem, spec_alloc, phase, step, pubs, xlat>>

\* variant: fetch_and with the mask itself, the complement forgotten
FetchAndMask(word, v) == word \cap {sub_index(v)}
\* the word after fetch_and(!(1 << sub_index))
FetchAnd(word, v) == word \ {sub_index(v)}

\* variant: a remove that empties the last word of a bucket frees the
\* bucket and nulls its slot
RemAndReclaim(t) ==
    /\ Running
    /\ pc[t] = "rem_and"
    /\ ptr[t] \in DOMAIN mem
    /\ LET after == [mem EXCEPT ![ptr[t]][OffsetOf(arg[t])] = FetchAnd(@, arg[t])]
       IN  IF \A w \in DOMAIN after[ptr[t]] : after[ptr[t]][w] = {}
           THEN /\ mem' = Dealloc(after, ptr[t])
                /\ buckets' = [buckets EXCEPT ![BucketOf(arg[t])] = NULL]
           ELSE /\ mem' = after
                /\ buckets' = buckets
    /\ Return(t, "ret_rem", sub_index(arg[t]) \in mem[ptr[t]][OffsetOf(arg[t])])
    /\ hist' = IF Hist(arg[t]) = "fresh" THEN hist
               ELSE Record(hist, arg[t], "removed")
    /\ UNCHANGED <<spec_alloc, phase, step, pubs, xlat>>

\* lines 57-58: fetch_and(!(1 << sub_index)), return the previous bit
RemAnd(t) ==
    /\ Running
    /\ pc[t] = "rem_and"
    /\ IF ValidWord(mem, ptr[t], OffsetOf(arg[t]))
       THEN /\ mem' = [mem EXCEPT ![ptr[t]][OffsetOf(arg[t])] = FetchAnd(@, arg[t])]
            /\ Return(t, "ret_rem",
                      sub_index(arg[t]) \in mem[ptr[t]][OffsetOf(arg[t])])
            /\ hist' = IF Hist(arg[t]) = "fresh" THEN hist
                       ELSE Record(hist, arg[t], "removed")
            /\ phase' = phase
       ELSE /\ phase' = "ub"
            /\ UNCHANGED <<mem, pc, ret, ptr, arg, hist>>
    /\ UNCHANGED <<buckets, spec_alloc, step, pubs, xlat>>

----------------------------------------------------------------------------
\* AtomicBitSet::contains

\* lines 64-67: load the slot; a null slot returns false
ConLoad(t) ==
    /\ Running
    /\ pc[t] = "con_load"
    /\ IF buckets[BucketOf(arg[t])] = NULL
       THEN Return(t, "ret_con", FALSE)
       ELSE /\ ptr' = [ptr EXCEPT ![t] = buckets[BucketOf(arg[t])]]
            /\ pc' = [pc EXCEPT ![t] = "con_word"]
            /\ UNCHANGED <<ret, arg>>
    /\ UNCHANGED <<buckets, mem, spec_alloc, phase, hist, step, pubs, xlat>>

\* variant: the word is tested against zero, the mask forgotten
ConWordAnyBit(t) ==
    /\ Running
    /\ pc[t] = "con_word"
    /\ ptr[t] \in DOMAIN mem
    /\ Return(t, "ret_con", mem[ptr[t]][OffsetOf(arg[t])] # {})
    /\ UNCHANGED <<buckets, mem, spec_alloc, phase, hist, step, pubs, xlat>>

\* lines 68-69: load the word and test the bit
ConWord(t) ==
    /\ Running
    /\ pc[t] = "con_word"
    /\ IF ValidWord(mem, ptr[t], OffsetOf(arg[t]))
       THEN /\ Return(t, "ret_con",
                      sub_index(arg[t]) \in mem[ptr[t]][OffsetOf(arg[t])])
            /\ phase' = phase
       ELSE /\ phase' = "ub"
            /\ UNCHANGED <<pc, ret, ptr, arg>>
    /\ UNCHANGED <<buckets, mem, spec_alloc, hist, step, pubs, xlat>>

----------------------------------------------------------------------------
\* AtomicBitSet::clear and Drop, which need exclusive access

RECURSIVE ClearLoopKeepSlot(_, _, _)
\* variant: clear frees the blocks but leaves the pointers in the slots
ClearLoopKeepSlot(i, bk, mm) ==
    IF i = BUCKET_COUNT THEN [buckets |-> bk, mem |-> mm, ok |-> TRUE]
    ELSE IF bk[i] = NULL THEN [buckets |-> bk, mem |-> mm, ok |-> TRUE]
    ELSE LET rest == ClearLoopKeepSlot(i + 1, bk, Dealloc(mm, bk[i]))
         IN  [rest EXCEPT !.ok = @ /\ ValidFree(mm, bk[i], 2 ^ i)]

RECURSIVE ClearLoop(_, _, _)
\* lines 73-79: for (i, bucket) in buckets: break at the first null slot,
\* otherwise free the block and null the slot
ClearLoop(i, bk, mm) ==
    IF i = BUCKET_COUNT THEN [buckets |-> bk, mem |-> mm, ok |-> TRUE]
    ELSE IF bk[i] = NULL THEN [buckets |-> bk, mem |-> mm, ok |-> TRUE]
    ELSE LET rest == ClearLoop(i + 1, [bk EXCEPT ![i] = NULL], Dealloc(mm, bk[i]))
         IN  [rest EXCEPT !.ok = @ /\ ValidFree(mm, bk[i], 2 ^ i)]

RECURSIVE DropLoop(_, _, _)
\* lines 86-91: the same loop without nulling the slot
DropLoop(i, bk, mm) ==
    IF i = BUCKET_COUNT THEN [buckets |-> bk, mem |-> mm, ok |-> TRUE]
    ELSE IF bk[i] = NULL THEN [buckets |-> bk, mem |-> mm, ok |-> TRUE]
    ELSE LET rest == DropLoop(i + 1, bk, Dealloc(mm, bk[i]))
         IN  [rest EXCEPT !.ok = @ /\ ValidFree(mm, bk[i], 2 ^ i)]

Cleared(h) == [x \in DOMAIN h |-> "cleared"]

clear ==
    /\ Running
    /\ Quiescent
    /\ buckets' = ClearLoop(0, buckets, mem).buckets
    /\ mem' = ClearLoop(0, buckets, mem).mem
    /\ phase' = IF ClearLoop(0, buckets, mem).ok THEN "cleared" ELSE "ub"
    /\ hist' = Cleared(hist)
    /\ UNCHANGED <<pc, arg, ptr, spec_alloc, ret, step, pubs, xlat>>

drop ==
    /\ Running
    /\ Quiescent
    /\ buckets' = DropLoop(0, buckets, mem).buckets
    /\ mem' = DropLoop(0, buckets, mem).mem
    /\ phase' = IF DropLoop(0, buckets, mem).ok THEN "dropped" ELSE "ub"
    /\ UNCHANGED <<pc, arg, ptr, spec_alloc, ret, hist, step, pubs, xlat>>

----------------------------------------------------------------------------
\* Free-running callers

CallAdd(t, v) == Call(t, "add_load", v) /\ step' = step
CallRemove(t, v) == Call(t, "rem_load", v) /\ step' = step
CallContains(t, v) == Call(t, "con_load", v) /\ step' = step

Next ==
    \/ \E t \in Threads, v \in ConcVals : CallAdd(t, v)
    \/ \E t \in Threads, v \in ConcVals : CallRemove(t, v)
    \/ \E t \in Threads, v \in ConcVals : CallContains(t, v)
    \/ \E t \in Threads : AddLoad(t)
    \/ \E t \in Threads : AddAlloc(t)
    \/ \E t \in Threads : AddAllocFail(t)
    \/ \E t \in Threads : AddCas(t)
    \/ \E t \in Threads : AddOr(t)
    \/ \E t \in Threads : RemLoad(t)
    \/ \E t \in Threads : RemAnd(t)
    \/ \E t \in Threads : ConLoad(t)
    \/ \E t \in Threads : ConWord(t)
    \/ clear
    \/ drop

Spec == Init /\ [][Next]_vars

----------------------------------------------------------------------------
\* A single caller (the unit tests' situation): only thread 1 runs.

NextSeq ==
    \/ \E v \in Vals : CallAdd(1, v)
    \/ \E v \in Vals : CallRemove(1, v)
    \/ \E v \in Vals : CallContains(1, v)
    \/ AddLoad(1)
    \/ AddAlloc(1)
    \/ AddAllocFail(1)
    \/ AddCas(1)
    \/ AddOr(1)
    \/ RemLoad(1)
    \/ RemAnd(1)
    \/ ConLoad(1)
    \/ ConWord(1)
    \/ clear
    \/ drop

SpecSeq == Init /\ [][NextSeq]_vars

----------------------------------------------------------------------------
\* The insert_100k test (lines 156-167) on the range 0..RangeN-1, run by
\* thread 1: add(i) twice for every i, then contains(i) for every i.

RangeAdd ==
    /\ step[1] < 2 * RangeN
    /\ Call(1, "add_load", step[1] \div 2)
    /\ step' = [step EXCEPT ![1] = @ + 1]

RangeContains ==
    /\ step[1] >= 2 * RangeN
    /\ step[1] < 3 * RangeN
    /\ Call(1, "con_load", step[1] - 2 * RangeN)
    /\ step' = [step EXCEPT ![1] = @ + 1]

\* line 167: the set goes out of scope at the end of the test and is dropped
RangeDrop ==
    /\ step[1] = 3 * RangeN
    /\ drop

NextRange ==
    \/ RangeAdd
    \/ RangeContains
    \/ RangeDrop
    \/ AddLoad(1)
    \/ AddAlloc(1)
    \/ AddAllocFail(1)
    \/ AddCas(1)
    \/ AddOr(1)
    \/ ConLoad(1)
    \/ ConWord(1)

SpecRange == Init /\ [][NextRange]_vars

----------------------------------------------------------------------------
\* Threads that concurrently insert pairwise disjoint keys: thread t adds
\* the keys of Keys[t] in order.

DisjointAdd(t) ==
    /\ step[t] < Len(Keys[t])
    /\ Call(t, "add_load", Keys[t][step[t] + 1])
    /\ step' = [step EXCEPT ![t] = @ + 1]

NextDisjoint ==
    \/ \E t \in Threads : DisjointAdd(t)
    \/ \E t \in Threads : AddLoad(t)
    \/ \E t \in Threads : AddAlloc(t)
    \/ \E t \in Threads : AddAllocFail(t)
    \/ \E t \in Threads : AddCas(t)
    \/ \E t \in Threads : AddOr(t)

SpecDisjoint == Init /\ [][NextDisjoint]_vars

\* ---- the address translation on its own ----
\* lines 29-30 (and 51-52, 62-63): index(val / PTR_WIDTH), val % PTR_WIDTH
InitIndex == InitSet /\ xlat \in {[NoXlat EXCEPT !.val = v] : v \in IndexVals}

Translate ==
    /\ ~xlat.done
    /\ xlat' = [val |-> xlat.val, done |-> TRUE,
                bucket |-> index_bits(DivWidth(xlat.val)).bucket,
                bucket_size |-> index_bits(DivWidth(xlat.val)).bucket_size,
                index |-> index_bits(DivWidth(xlat.val)).index,
                sub_index |-> ModWidth(xlat.val),
                ovf |-> index_bits(DivWidth(xlat.val)).ovf]
    /\ UNCHANGED <<buckets, mem, pc, arg, ptr, spec_alloc, ret, phase, hist,
                   step, pubs>>

NextIndex == Translate

SpecIndex == InitIndex /\ [][NextIndex]_vars

TypeOK ==
    /\ phase # "dropped" =>
          \A i \in DOMAIN buckets : buckets[i] = NULL \/ buckets[i] \in DOMAIN mem
    /\ phase \in {"alive", "cleared", "dropped", "aborted", "ub"}


----------------------------------------------------------------------------
\* Steps in which a call of thread t returns

AddReturns(t) == pc[t] = "add_or" /\ pc'[t] = "ret_add"
RemoveReturns(t) == pc[t] \in {"rem_load", "rem_and"} /\ pc'[t] = "ret_rem"
ContainsReturns(t) == pc[t] \in {"con_load", "con_word"} /\ pc'[t] = "ret_con"

\* Thread t takes a step of the named call
InAdd(t) == pc[t] \in {"add_load", "add_alloc", "add_cas", "add_or"} /\ pc'[t] # pc[t]
InRemove(t) == pc[t] \in {"rem_load", "rem_and"} /\ pc'[t] # pc[t]
InContains(t) == pc[t] \in {"con_load", "con_word"} /\ pc'[t] # pc[t]

----------------------------------------------------------------------------
\* C1 (reset correctness): right after clear() no value is contained,
\* whatever was inserted before, and the first add(v) after clear() of a
\* previously inserted v returns false as on a new set.
C1_ResetCorrect ==
    /\ [](phase = "cleared" => \A v \in Vals : ~Contains(v))
    /\ [][\A t \in Threads :
            (AddReturns(t) /\ Hist(arg[t]) = "cleared") => ret'[t] = FALSE]_vars

\* C2 (idempotent insertion): the first add(v) of a never inserted v returns
\* false, an add(v) that follows an add(v) with no remove(v) or clear() in
\* between returns true, and from the first add(v) on contains(v) is true.
C2_IdempotentInsert ==
    /\ [](phase # "dropped" => \A v \in Vals : Hist(v) = "added" => Contains(v))
    /\ [][\A t \in Threads :
            /\ (AddReturns(t) /\ Hist(arg[t]) = "fresh") => ret'[t] = FALSE
            /\ (AddReturns(t) /\ Hist(arg[t]) = "added") => ret'[t] = TRUE
            /\ (ContainsReturns(t) /\ Hist(arg[t]) = "added") => ret'[t] = TRUE]_vars

\* a second add(192) has returned true and 192 is contained
C2_Witness ==
    /\ phase = "alive"
    /\ pc[1] = "ret_add"
    /\ ret[1] = TRUE
    /\ DOMAIN hist = {192}
    /\ hist[192] = "added"
    /\ Contains(192)

\* C3 (removal correctness): remove(v) of a never inserted v returns false
\* and leaves contains(v) false; remove(v) after add(v) returns true and
\* makes contains(v) false; a second remove(v) returns false.
C3_RemovalCorrect ==
    /\ [](phase # "dropped" =>
            \A v \in Vals : Hist(v) \in {"fresh", "removed"} => ~Contains(v))
    /\ [][\A t \in Threads :
            /\ (RemoveReturns(t) /\ Hist(arg[t]) = "fresh") =>
                   (ret'[t] = FALSE /\ ~ContainsIn(buckets', mem', arg[t]))
            /\ (RemoveReturns(t) /\ Hist(arg[t]) = "added") =>
                   (ret'[t] = TRUE /\ ~ContainsIn(buckets', mem', arg[t]))
            /\ (RemoveReturns(t) /\ Hist(arg[t]) = "removed") => ret'[t] = FALSE]_vars

\* remove(128) has returned true after add(128), next to 64 which stays
C3_Witness ==
    /\ phase = "alive"
    /\ pc[1] = "ret_rem"
    /\ ret[1] = TRUE
    /\ Hist(128) = "removed"
    /\ Hist(64) = "added"
    /\ Hist(0) = "fresh"
    /\ ~Contains(128)

\* All threads of the disjoint-key driver have returned from their last add.
DisjointDone == \A t \in Threads : Idle(t) /\ step[t] = Len(Keys[t])

\* C4 (concurrent disjoint-key safety): once every thread has added all of
\* its keys, every key of every thread is contained.
C4_DisjointKeys ==
    (DisjointDone /\ phase = "alive") =>
        \A t \in Threads : \A i \in 1..Len(Keys[t]) : Contains(Keys[t][i])

\* both threads are done and the two published buckets hold all five keys
C4_Witness ==
    /\ DisjointDone
    /\ phase = "alive"
    /\ buckets[0] # NULL
    /\ buckets[1] # NULL
    /\ Cardinality(DOMAIN mem) = 2

\* C5 (teardown frees everything): after drop no block that is published in
\* a slot is still allocated.
C5_DropFreesAll ==
    phase = "dropped" =>
        \A i \in DOMAIN buckets : buckets[i] # NULL => buckets[i] \notin DOMAIN mem

\* C6 (reset reclaims all memory): right after clear() every slot is null
\* and no block is allocated any more.
C6_ClearFreesAll ==
    phase = "cleared" =>
        /\ \A i \in DOMAIN buckets : buckets[i] = NULL
        /\ DOMAIN mem = {}

\* C7 (independence): no step of add(v1) or remove(v1) changes what
\* contains(v2) yields for a value v2 other than v1.
C7_Independence ==
    [][\A t \in Threads : (InAdd(t) \/ InRemove(t)) =>
          \A v2 \in Vals \ {arg[t]} :
              ContainsIn(buckets', mem', v2) = Contains(v2)]_vars

\* 0 and 64 are in, their neighbours 1 (same word as 0), 128 (same bucket
\* as 64) and 192 (another bucket) were added and removed again
C7_Witness ==
    /\ phase = "alive"
    /\ Quiescent
    /\ Hist(0) = "added" /\ Contains(0)
    /\ Hist(64) = "added" /\ Contains(64)
    /\ Hist(1) = "removed" /\ ~Contains(1)
    /\ Hist(128) = "removed" /\ ~Contains(128)
    /\ Hist(192) = "removed" /\ ~Contains(192)

\* C8 (no false negatives across bucket boundaries): once the test has
\* added every value of 0..RangeN-1, every one of them is contained and
\* every contains(v) of the test returns true.
C8_RangeContained ==
    /\ (phase = "alive" /\ Idle(1) /\ step[1] >= 2 * RangeN) =>
           \A v \in 0..(RangeN - 1) : Contains(v)
    /\ (pc[1] = "ret_con") => ret[1] = TRUE

\* the test has run to its end: the last contains returned true and the
\* range reached word 8, the first word of bucket 3
C8_Witness ==
    /\ phase = "alive"
    /\ step[1] = 3 * RangeN
    /\ pc[1] = "ret_con"
    /\ ret[1] = TRUE
    /\ RangeN > 8 * PTR_WIDTH
    /\ buckets[3] # NULL

\* C9 (remove and contains never grow the structure): no step of remove or
\* contains changes a slot or the set of allocated blocks, a step that
\* finds the slot null returns false at once, and contains writes no word.
C9_NoGrowth ==
    [][\A t \in Threads : (InRemove(t) \/ InContains(t)) =>
          /\ buckets' = buckets
          /\ DOMAIN mem' = DOMAIN mem
          /\ (pc[t] \in {"rem_load", "con_load"} /\ buckets[BucketOf(arg[t])] = NULL) =>
                 (Idle(t)' /\ ret'[t] = FALSE /\ mem' = mem)
          /\ InContains(t) => mem' = mem]_vars

\* remove(64) has returned false from the null slot of bucket 1 while
\* bucket 0 is published
C9_Witness ==
    /\ phase = "alive"
    /\ pc[1] = "ret_rem"
    /\ ret[1] = FALSE
    /\ buckets[1] = NULL
    /\ buckets[0] # NULL
    /\ Hist(64) = "fresh"
    /\ pc[2] = "con_load"

\* C10 (fatal path): the step in which the allocation of add fails changes
\* no slot and no word, and the failing add never returns: the process is
\* aborted with the call still before its compare_exchange.
C10_FatalPath ==
    /\ [](phase = "aborted" => \E t \in Threads : pc[t] = "add_alloc")
    /\ [][(phase # "aborted" /\ phase' = "aborted") =>
            (buckets' = buckets /\ mem' = mem /\ pc' = pc /\ ret' = ret)]_vars
    /\ [][phase = "aborted" => phase' = "aborted"]_vars

\* the allocation for add(64) failed while 0 was already in the set
C10_Witness ==
    /\ phase = "aborted"
    /\ pc[1] = "add_alloc"
    /\ arg[1] = 64
    /\ buckets[1] = NULL
    /\ Contains(0)


----------------------------------------------------------------------------
\* C11 (unique canonical bucket): a slot is published only by a
\* compare_exchange that finds it null, and every thread that is about to
\* set, clear or read a bit does it in the block stored in the slot of its
\* value: the winner in its own block, a loser in the winner's.
C11_CanonicalBucket ==
    /\ [](Running =>
            \A t \in Threads : pc[t] \in {"add_or", "rem_and", "con_word"} =>
                (ptr[t] # NULL /\ ptr[t] = buckets[BucketOf(arg[t])]))
    /\ [][\A i \in DOMAIN buckets :
            (buckets'[i] # buckets[i] /\ buckets'[i] # NULL) =>
                (buckets[i] = NULL /\
                 \E t \in Threads : pc[t] = "add_cas" /\ BucketOf(arg[t]) = i
                                    /\ buckets'[i] = spec_alloc[t])]_vars

\* both threads raced to publish bucket 1: thread 1 won, thread 2 lost its
\* compare_exchange and is about to set its bit in thread 1's block
C11_Witness ==
    /\ phase = "alive"
    /\ pc[1] = "add_or" /\ arg[1] = 64
    /\ pc[2] = "add_or" /\ arg[2] = 65
    /\ buckets[0] = NULL
    /\ ptr[1] = buckets[1]
    /\ ptr[2] = buckets[1]
    /\ ~Contains(64) /\ ~Contains(65)

\* Blocks stored in a slot, and blocks held by a call between its
\* allocation and its compare_exchange.
SlotBlocks == {buckets[i] : i \in DOMAIN buckets} \ {NULL}
SpeculativeBlocks == {spec_alloc[t] : t \in Threads} \ {NULL}

\* C12 (losers are reclaimed): the allocated blocks are exactly the
\* published ones plus those of calls that have not yet done their
\* compare_exchange; a failed compare_exchange frees the caller's block in
\* that step; with no add in progress only published blocks are allocated.
C12_LosersReclaimed ==
    /\ [](phase # "dropped" =>
            /\ DOMAIN mem = SlotBlocks \cup SpeculativeBlocks
            /\ \A t \in Threads : spec_alloc[t] # NULL => pc[t] = "add_cas"
            /\ Quiescent => DOMAIN mem = SlotBlocks)
    /\ [][\A t \in Threads :
            (pc[t] = "add_cas" /\ pc'[t] # "add_cas" /\ buckets' = buckets) =>
                (spec_alloc[t] \notin DOMAIN mem' /\ spec_alloc[t] \in DOMAIN mem)]_vars

\* both adds have returned after a race for bucket 1 and one block is left
C12_Witness ==
    /\ phase = "alive"
    /\ pc[1] = "ret_add" /\ pc[2] = "ret_add"
    /\ Hist(64) = "added" /\ Hist(65) = "added" /\ Hist(0) = "fresh"
    /\ DOMAIN mem = {buckets[1]}
    /\ buckets[1] = 2

\* C13 (slot stability): no step of add, remove or contains changes a
\* slot that is not null.
C13_SlotStable ==
    [][phase' \notin {"cleared", "dropped"} =>
          \A i \in DOMAIN buckets : buckets[i] # NULL => buckets'[i] = buckets[i]]_vars

\* bucket 1 is published and a second add for it has lost its
\* compare_exchange
C13_Witness ==
    /\ phase = "alive"
    /\ buckets[1] # NULL
    /\ pc[2] = "add_or" /\ arg[2] = 64
    /\ pc[1] = "ret_add"
    /\ Hist(65) = "added"
    /\ DOMAIN mem = {2}
    /\ buckets[1] = 2


----------------------------------------------------------------------------
\* C15 (atomic visibility of contains): a contains(v) returns the
\* membership of v at the instant of its last load, which lies between its
\* call and its return: the bit of v in the published bucket at that
\* instant, hence true after an add(v) and false before any add(v) or after
\* a remove(v), whatever other threads are doing.
C15_ContainsAtomic ==
    [][\A t \in Threads : ContainsReturns(t) =>
          /\ ret'[t] = Contains(arg[t])
          /\ Hist(arg[t]) = "added" => ret'[t] = TRUE
          /\ Hist(arg[t]) \in {"fresh", "removed"} => ret'[t] = FALSE]_vars

\* a contains(64) has returned true while a remove(64) of the other thread
\* is between its load of the slot and its fetch_and
C15_Witness ==
    /\ phase = "alive"
    /\ pc[1] = "ret_con" /\ ret[1] = TRUE
    /\ pc[2] = "rem_and" /\ arg[2] = 64
    /\ DOMAIN hist = {64}
    /\ hist[64] = "added"

\* Number of steps a call still has to take at most from position p.
Rank(p) ==
    CASE p = "add_load" -> 4
      [] p = "add_alloc" -> 3
      [] p = "add_cas" -> 2
      [] p = "add_or" -> 1
      [] p = "rem_load" -> 2
      [] p = "rem_and" -> 1
      [] p = "con_load" -> 2
      [] p = "con_word" -> 1
      [] OTHER -> 0

\* The next step of the call of thread t.
ThreadStep(t) ==
    \/ AddLoad(t) \/ AddAlloc(t) \/ AddCas(t) \/ AddOr(t)
    \/ RemLoad(t) \/ RemAnd(t)
    \/ ConLoad(t) \/ ConWord(t)

\* C17 (wait-free acquisition): every step of a call brings it strictly
\* closer to its return (at most 4 steps for add, 2 for remove and
\* contains, so no retry), a block is allocated only in the one allocation
\* step of an add, and the next step of a call in progress can always be
\* taken, whatever the other threads have done.
C17_WaitFree ==
    /\ [](Running => \A t \in Threads : ~Idle(t) => ENABLED ThreadStep(t))
    /\ [][\A t \in Threads :
            (~Idle(t) /\ pc'[t] # pc[t]) => Rank(pc'[t]) < Rank(pc[t])]_vars
    /\ [][(DOMAIN mem' \ DOMAIN mem # {}) =>
            \E t \in Threads : pc[t] = "add_alloc" /\ pc'[t] = "add_cas"]_vars

\* both add(64) have returned after both allocated a block for bucket 1:
\* the loser completed without another attempt
C17_Witness ==
    /\ phase = "alive"
    /\ pc[1] = "ret_add" /\ pc[2] = "ret_add"
    /\ ret[1] # ret[2]
    /\ DOMAIN hist = {64}
    /\ hist[64] = "added"
    /\ buckets[1] = 2

\* C18 (linearizable return values): add(v) and remove(v) return the bit
\* of v as it is right before their own fetch_or / fetch_and and leave it
\* set / cleared; so an add(v) returns true exactly when an add(v) was the
\* last operation on v before it, and a remove(v) returns true exactly
\* when an add(v) was.
C18_ReturnsPrevious ==
    [][\A t \in Threads :
          /\ AddReturns(t) =>
                /\ ret'[t] = Contains(arg[t])
                /\ ContainsIn(buckets', mem', arg[t])
                /\ Hist(arg[t]) = "added" => ret'[t] = TRUE
                /\ Hist(arg[t]) \in {"fresh", "removed"} => ret'[t] = FALSE
          /\ (RemoveReturns(t) /\ pc[t] = "rem_and") =>
                /\ ret'[t] = Contains(arg[t])
                /\ ~ContainsIn(buckets', mem', arg[t])
                /\ Hist(arg[t]) = "added" => ret'[t] = TRUE
                /\ Hist(arg[t]) \in {"fresh", "removed"} => ret'[t] = FALSE]_vars

\* two add(0) have returned, one false and one true, and nothing else was
\* ever inserted
C18_Witness ==
    /\ phase = "alive"
    /\ pc[1] = "ret_add" /\ pc[2] = "ret_add"
    /\ ret[1] = FALSE /\ ret[2] = TRUE
    /\ DOMAIN hist = {0}
    /\ hist[0] = "added"
    /\ buckets[1] = NULL


----------------------------------------------------------------------------
\* C14 (publish once per lifetime), as claimed: no slot that has been
\* published since new() goes from null to non-null again, clear()
\* included.
C14_PublishOnce ==
    [][\A i \in DOMAIN buckets :
          (buckets[i] = NULL /\ buckets'[i] # NULL) => i \notin pubs]_vars

\* C14, amended: only clear() takes a slot from non-null back to null, so
\* that between new() and the first clear(), and between two clear(), each
\* slot goes from null to non-null at most once; after a clear() that
\* nulled it the slot may be published again.
C14_PublishOncePerClear ==
    [][\A i \in DOMAIN buckets :
          (buckets[i] # NULL /\ buckets'[i] = NULL) => phase' = "cleared"]_vars

\* slots 0 and 1 were published and nulled by a clear(), then an add(0)
\* published slot 0 a second time
C14_Witness ==
    /\ phase = "alive"
    /\ pubs = {0, 1}
    /\ Hist(64) = "cleared"
    /\ Hist(0) = "added"
    /\ buckets[0] # NULL
    /\ buckets[1] = NULL
    /\ Contains(0)


----------------------------------------------------------------------------
\* C20 (memory safety of frees): no run reaches undefined behaviour: every
\* dealloc, in a losing add, in clear() and in drop, frees a block that
\* is allocated (so none is freed twice, also by clear() after clear() or
\* drop after clear()) and has the word count it is freed with, and every
\* fetch_or, fetch_and and load of a word is inside an allocated block;
\* every block that leaves the heap was in it.
C20_SafeFrees ==
    /\ [](phase # "ub")
    /\ [](Running =>
            \A t \in Threads : pc[t] \in {"add_or", "rem_and", "con_word"} =>
                ValidWord(mem, ptr[t], OffsetOf(arg[t])))
    /\ [](Running =>
            \A i \in DOMAIN buckets :
                buckets[i] # NULL => ValidFree(mem, buckets[i], 2 ^ i))

\* a clear() freed the buckets 0 and 1, slot 0 was published again by
\* add(0), and drop has freed its block
C20_Witness ==
    /\ phase = "dropped"
    /\ Hist(64) = "cleared"
    /\ Hist(0) = "added"
    /\ pubs = {0, 1}
    /\ buckets[0] # NULL
    /\ buckets[1] = NULL
    /\ DOMAIN mem = {}


----------------------------------------------------------------------------
\* Order of two usize values: the highest bit in which they differ is in y
LtBits(x, y) ==
    \E p \in y \ x : \A q \in (p + 1)..(PTR_WIDTH - 1) : q \in x <=> q \in y
LeBits(x, y) == x = y \/ LtBits(x, y)

\* The result of the translation is small enough to be read as integers
SmallXlat == xlat.val \subseteq 0..30 /\ xlat.bucket \subseteq 0..4

\* C16 (address translation): for the word index k = val / W of every bit
\* index val, index(k) returns bucket = floor(log2(k + 1)), that is
\* 2^bucket <= k + 1 < 2^(bucket + 1), bucket_size = 2^bucket and
\* offset = k - (2^bucket - 1); k = 0 maps to bucket 0 and offset 0. For the
\* bit indices below 2^31 the same holds of the integers, and index() on the
\* integers, which the operations of the set use, returns the same triple.
C16_AddressTranslation ==
    xlat.done =>
        LET k == DivWidth(xlat.val)
            b == ToInt(xlat.bucket \cap (0..5))
        IN  /\ xlat.bucket \subseteq 0..5
            /\ LeBits(0..(b - 1), k)
            /\ LtBits(k, 0..b)
            /\ xlat.bucket_size = {b}
            /\ Add(xlat.index, 0..(b - 1)) = [val |-> k, ovf |-> FALSE]
            /\ k = {} => xlat.bucket = {} /\ xlat.index = {}
            /\ SmallXlat =>
                 LET n == ToInt(xlat.val) \div PTR_WIDTH
                 IN  /\ 2 ^ b <= n + 1
                     /\ n + 1 < 2 ^ (b + 1)
                     /\ ToInt(xlat.bucket_size) = 2 ^ b
                     /\ ToInt(xlat.index) = n - (2 ^ b - 1)
                     /\ index(n) = [bucket |-> b, bucket_size |-> 2 ^ b,
                                    index |-> n - (2 ^ b - 1)]

\* usize::MAX is translated: word index 2^58 - 1, first word of bucket 58
C16_Witness ==
    /\ xlat.done
    /\ xlat.val = Bits
    /\ xlat.bucket = FromInt(58)
    /\ xlat.bucket_size = {58}
    /\ xlat.index = {}

\* (bucket, offset, bit) of every bit index the translation is applied to
AddrOf ==
    [w \in IndexVals |-> <<index_bits(DivWidth(w)).bucket,
                           index_bits(DivWidth(w)).index, ModWidth(w)>>]

\* C19 (in-bounds and injective addressing): for every bit index val,
\* index(val / W) neither overflows nor underflows, its bucket is a slot
\* index (below BUCKET_COUNT), its offset is below the 2^bucket words the
\* bucket is allocated with, and no other bit index has the same
\* (bucket, offset, val % W).
C19_InBoundsInjective ==
    xlat.done =>
        /\ ~xlat.ovf
        /\ LtBits(xlat.bucket, FromInt(BUCKET_COUNT))
        /\ xlat.bucket_size = {ToInt(xlat.bucket \cap (0..5))}
        /\ LtBits(xlat.index, xlat.bucket_size)
        /\ \A w \in IndexVals \ {xlat.val} :
              AddrOf[w] # <<xlat.bucket, xlat.index, xlat.sub_index>>

\* 2^63 is translated: word index 2^57, second word of bucket 57, bit 0
C19_Witness ==
    /\ xlat.done
    /\ ~xlat.ovf
    /\ xlat.val = {63}
    /\ xlat.bucket = FromInt(57)
    /\ xlat.index = {0}
    /\ xlat.sub_index = {}

====
